---- MODULE Spec2Model ----
(***************************************************************************)
(* Model of lightsense.py: the sleep/report state machine of the LightSense *)
(* motion node.  Every hook of the script (_tick100ms, _tick1s,            *)
(* _report_sent) is a handler that runs to completion: it starts when pc   *)
(* is "idle" and no other hook starts until pc is "idle" again.  pc is the  *)
(* position inside the running handler; a handler is split at the calls    *)
(* whose order the script relies on (pin write, settle sleep, register     *)
(* poke, state assignment, sleep, transmit).                               *)
(***************************************************************************)
EXTENDS Integers, FiniteSets, Sequences, TLC

(* ---- bounds ---- *)
MaxSeconds == 13        \* cap of seconds_since_startup in the model
MaxPulses == 2          \* cap of the counted heartbeat pulses
MaxTicksRemain == 2     \* largest remaining time a sleep reports
NumHandles == 2         \* number of distinct transmit buffer handles
TxCap == 3              \* saturation of the transmit counter

(* ---- constants of the script ---- *)
None == -1              \* Python None, an integer outside every value range

STARTUP_DELAY == 10

ST_WAIT_NEW_MOTION == 0
ST_WAIT_DEADBAND == 1
ST_WAIT_STILL == 2
ST_INIT == 3

RT_MOTION == "motion"
RT_STILL == "still"

EV_MOTION == 0
EV_EXPIRY == 1
EV_RPTSENT == 2

MOTION_DEADBAND == 1
MOTION_STILLNESS == 60
STILL_REPORT_PERIOD == 120
PIR_SETTLE_TIME == 5

States == {ST_INIT, ST_WAIT_NEW_MOTION, ST_WAIT_DEADBAND, ST_WAIT_STILL}
Events == {EV_MOTION, EV_EXPIRY, EV_RPTSENT}
Handles == 1..NumHandles
VrefAdc == {341, 409}   \* readings of the battery reference channel

VARIABLES
  device_state,            \* global device_state
  current_rpc_buffer,      \* global current_rpc_buffer (None or a handle)
  batt, photo, temperature,\* globals holding the sensor values
  initialized,             \* global initialized
  seconds_since_startup,   \* global seconds_since_startup
  led_pin,                 \* level of LED_PIN (active low)
  motion_en,               \* level of MOTION_EN
  wake_en,                 \* bit 0x40 of the wake registers 0x16 and 0x17
  pc,                      \* position of the running handler
  event,                   \* local event of _fsm
  do_monitor, mm_ret,      \* argument of _monitor_motion and where it returns
  sleep_time,              \* argument of _sleep
  report_type,             \* argument of _send_report
  reboot_pending,          \* reboot() has been called, the node has not restarted yet
  outstanding,             \* handles the radio has still to complete
  pulses,                  \* heartbeat pulses emitted (history)
  last_hook,               \* what the last _report_sent did (history)
  tx_since,                \* transmits since the last ReportSent event (history)
  ever_tx,                 \* a report was transmitted since boot (history)
  first_sleep, last_sleep, \* first and last duration passed to _sleep (history)
  settle_cut,              \* the last settle sleep ended early (history)
  ev_fresh,                \* event was assigned since the last dispatch (history)
  last_branch,             \* branch the last dispatch of _fsm took (history)
  last_ticks,              \* what the last sleep of _sleep returned (history)
  settled,                 \* a settle sleep was made since MOTION_EN was written (history)
  rpt,                     \* arguments of the last mcastRpc (history)
  meas,                    \* what the readers measured in the last snapshot (history)
  ticks_seen,              \* calls of _tick1s since boot (history)
  phase                    \* progress since the last Motion report (history)

vars == <<device_state, current_rpc_buffer, batt, photo, temperature, initialized,
          seconds_since_startup, led_pin, motion_en, wake_en, pc, event, do_monitor,
          mm_ret, sleep_time, report_type, reboot_pending, outstanding, pulses,
          last_hook, tx_since, ever_tx, first_sleep, last_sleep, settle_cut, ev_fresh,
          last_branch, last_ticks, settled, rpt, meas, ticks_seen, phase>>

prog == <<device_state, current_rpc_buffer, batt, photo, temperature, initialized,
          seconds_since_startup, led_pin, motion_en, wake_en>>
locals == <<event, do_monitor, mm_ret, sleep_time, report_type>>
hist == <<pulses, last_hook, tx_since, ever_tx, first_sleep, last_sleep, settle_cut,
          ev_fresh>>

hist2 == <<last_branch, last_ticks, settled, rpt, meas, ticks_seen, phase>>

NoReport == [type |-> "none", batt |-> None, photo |-> None, temperature |-> None]
NoSnapshot == [batt |-> 0, photo |-> 0, temperature |-> 0]

Armed == motion_en /\ wake_en

(* ---- state after power-on: module level assignments and _startup ---- *)
(* The pins and the wake registers are in their reset state: MOTION_EN is    *)
(* not driven and wake-on-motion is off until the script writes them.        *)
Boot ==
  /\ device_state = ST_INIT
  /\ current_rpc_buffer = None
  /\ batt = 0 /\ photo = 0 /\ temperature = 0
  /\ initialized = FALSE
  /\ seconds_since_startup = 0
  /\ led_pin = TRUE
  /\ motion_en = FALSE /\ wake_en = FALSE
  /\ pc = "idle"
  /\ event = None /\ do_monitor = FALSE /\ mm_ret = "idle"
  /\ sleep_time = None /\ report_type = RT_STILL
  /\ reboot_pending = FALSE
  /\ outstanding = {}
  /\ pulses = 0 /\ last_hook = "none" /\ tx_since = 0 /\ ever_tx = FALSE
  /\ first_sleep = None /\ last_sleep = None /\ settle_cut = FALSE
  /\ ev_fresh = TRUE
  /\ last_branch = "none" /\ last_ticks = None /\ settled = FALSE
  /\ rpt = NoReport /\ meas = NoSnapshot /\ ticks_seen = 0 /\ phase = "none"

Init == Boot

(* ---- sensors ---- *)
(* the readers: what each stores in its global, and what each returns *)
SAMPLES == 32
DISCARDED == 2
LightAdc == {100, 101}  \* readings of the light channel
TempAdc == {500, 501}   \* readings of the temperature channel

(* sums the averaging loop can reach: SAMPLES - DISCARDED readings are added *)
Sums(adc) ==
  LET lo == CHOOSE x \in adc : \A y \in adc : x <= y
      hi == CHOOSE x \in adc : \A y \in adc : x >= y
  IN  {(SAMPLES - DISCARDED) * lo, (SAMPLES - DISCARDED) * lo + 15,
       (SAMPLES - DISCARDED) * hi}

Average(sum) == sum \div (SAMPLES - DISCARDED)

read_battery(adc) == ((30690 \div adc) * 100) \div 3

read_photocell(sum) == None

read_temperature(sum) == None

update_sensors ==
  \E adc \in VrefAdc, lsum \in Sums(LightAdc), tsum \in Sums(TempAdc) :
    /\ batt' = read_battery(adc)
    /\ photo' = read_photocell(lsum)
    /\ temperature' = read_temperature(tsum)
    /\ meas' = [batt |-> read_battery(adc), photo |-> Average(lsum),
                temperature |-> Average(tsum)]

(* ---- _tick100ms ---- *)
tick100ms ==
  /\ pc = "idle"
  /\ IF ~initialized
       THEN pulses < MaxPulses /\ pulses' = pulses + 1
       ELSE UNCHANGED pulses
  /\ UNCHANGED <<prog, locals, pc, reboot_pending, outstanding, last_hook, tx_since,
                 ever_tx, first_sleep, last_sleep, settle_cut, ev_fresh>>
  /\ UNCHANGED hist2

(* ---- _tick1s ---- *)
tick1s_no_flag ==
  /\ pc = "idle"
  /\ IF ~initialized /\ seconds_since_startup > STARTUP_DELAY
       THEN /\ pc' = "init"
            /\ UNCHANGED <<initialized, seconds_since_startup>>
       ELSE /\ seconds_since_startup < MaxSeconds
            /\ seconds_since_startup' = seconds_since_startup + 1
            /\ UNCHANGED <<pc, initialized>>
  /\ UNCHANGED <<device_state, current_rpc_buffer, batt, photo, temperature, led_pin,
                 motion_en, wake_en, locals, reboot_pending, outstanding, hist>>
  /\ ticks_seen' = IF ticks_seen <= MaxSeconds THEN ticks_seen + 1 ELSE ticks_seen
  /\ UNCHANGED <<last_branch, last_ticks, settled, rpt, phase, meas>>

tick1s ==
  /\ pc = "idle"
  /\ IF ~initialized /\ seconds_since_startup > STARTUP_DELAY
       THEN /\ initialized' = TRUE
            /\ pc' = "init"
            /\ UNCHANGED seconds_since_startup
       ELSE /\ seconds_since_startup < MaxSeconds
            /\ seconds_since_startup' = seconds_since_startup + 1
            /\ UNCHANGED <<pc, initialized>>
  /\ UNCHANGED <<device_state, current_rpc_buffer, batt, photo, temperature, led_pin,
                 motion_en, wake_en, locals, reboot_pending, outstanding, hist>>
  /\ ticks_seen' = IF ticks_seen <= MaxSeconds THEN ticks_seen + 1 ELSE ticks_seen
  /\ UNCHANGED <<last_branch, last_ticks, settled, rpt, phase, meas>>

(* ---- _init: up to the call of _monitor_motion(True) ---- *)
init_hw ==
  /\ pc = "init"
  /\ update_sensors
  /\ led_pin' = FALSE            \* _set_pins_low_power writes every pin low
  /\ motion_en' = FALSE
  /\ do_monitor' = TRUE /\ mm_ret' = "init_led"
  /\ pc' = "mm_pin"
  /\ UNCHANGED <<device_state, current_rpc_buffer, initialized, seconds_since_startup,
                 wake_en, event, sleep_time, report_type, reboot_pending, outstanding,
                 hist>>
  /\ UNCHANGED <<last_branch, last_ticks, settled, rpt, ticks_seen, phase>>

(* ---- _init: after _monitor_motion, the LED write and _fsm(EV_EXPIRY) ---- *)
init_kickoff ==
  /\ pc = "init_led"
  /\ led_pin' = TRUE
  /\ event' = EV_EXPIRY
  /\ ev_fresh' = TRUE
  /\ pc' = "fsm"
  /\ UNCHANGED <<device_state, current_rpc_buffer, batt, photo, temperature,
                 initialized, seconds_since_startup, motion_en, wake_en, do_monitor,
                 mm_ret, sleep_time, report_type, reboot_pending, outstanding, pulses,
                 last_hook, tx_since, ever_tx, first_sleep, last_sleep, settle_cut>>
  /\ UNCHANGED hist2

(* ---- the result of a sleep: 0 on expiry, the remaining time on early wake ---- *)
SleepResults(only_armed) ==
  IF only_armed /\ ~wake_en THEN {0} ELSE 0..MaxTicksRemain

(* ---- _monitor_motion ---- *)
monitor_motion_pin_nosettle ==
  /\ pc = "mm_pin"
  /\ motion_en' = do_monitor
  /\ pc' = "mm_poke"
  /\ UNCHANGED <<device_state, current_rpc_buffer, batt, photo, temperature,
                 initialized, seconds_since_startup, led_pin, wake_en, locals,
                 reboot_pending, outstanding, hist>>
  /\ settled' = FALSE
  /\ UNCHANGED <<last_branch, last_ticks, rpt, meas, ticks_seen, phase>>

monitor_motion_pin ==
  /\ pc = "mm_pin"
  /\ motion_en' = do_monitor
  /\ pc' = IF do_monitor THEN "mm_settle" ELSE "mm_poke"
  /\ UNCHANGED <<device_state, current_rpc_buffer, batt, photo, temperature,
                 initialized, seconds_since_startup, led_pin, wake_en, locals,
                 reboot_pending, outstanding, hist>>
  /\ settled' = FALSE
  /\ UNCHANGED <<last_branch, last_ticks, rpt, meas, ticks_seen, phase>>

monitor_motion_settle(only_armed) ==
  /\ pc = "mm_settle"
  /\ \E ticksRemain \in SleepResults(only_armed) : settle_cut' = (ticksRemain # 0)
  /\ pc' = "mm_poke"
  /\ UNCHANGED <<prog, locals, reboot_pending, outstanding, pulses, last_hook,
                 tx_since, ever_tx, first_sleep, last_sleep, ev_fresh>>
  /\ settled' = TRUE
  /\ UNCHANGED <<last_branch, last_ticks, rpt, meas, ticks_seen, phase>>

WakeBit_stuck(monitor) == TRUE

WakeBit(monitor) == monitor

monitor_motion_poke ==
  /\ pc = "mm_poke"
  /\ wake_en' = WakeBit(do_monitor)
  /\ pc' = mm_ret
  /\ UNCHANGED <<device_state, current_rpc_buffer, batt, photo, temperature,
                 initialized, seconds_since_startup, led_pin, motion_en, locals,
                 reboot_pending, outstanding, hist>>
  /\ phase' = IF do_monitor THEN "none" ELSE phase
  /\ UNCHANGED <<last_branch, last_ticks, settled, rpt, meas, ticks_seen>>

(* ---- _sleep ---- *)
Classify_swapped(ticksRemain) == IF ticksRemain = 0 THEN EV_MOTION ELSE EV_EXPIRY

Classify(ticksRemain) == IF ticksRemain = 0 THEN EV_EXPIRY ELSE EV_MOTION

sleep(only_armed) ==
  /\ pc = "sleep"
  /\ \E ticksRemain \in SleepResults(only_armed) :
       /\ event' = Classify(ticksRemain)
       /\ last_ticks' = ticksRemain
       /\ phase' = IF phase = "acked" /\ sleep_time = MOTION_DEADBAND /\ ticksRemain = 0
                     THEN "expired" ELSE phase
  /\ first_sleep' = IF first_sleep = None THEN sleep_time ELSE first_sleep
  /\ last_sleep' = sleep_time
  /\ ev_fresh' = TRUE
  /\ pc' = "fsm"
  /\ UNCHANGED <<prog, do_monitor, mm_ret, sleep_time, report_type, reboot_pending,
                 outstanding, pulses, last_hook, tx_since, ever_tx, settle_cut>>
  /\ UNCHANGED <<last_branch, settled, rpt, meas, ticks_seen>>

(* ---- _send_report, and the event = None that follows each call of it ---- *)
EventAfterSend_kept(ev) == ev

EventAfterSend(ev) == None

send_report ==
  /\ pc = "send"
  /\ update_sensors
  /\ led_pin' = FALSE
  /\ \E h \in Handles :
       /\ current_rpc_buffer' = h
       /\ outstanding' = outstanding \cup {h}
  /\ tx_since' = IF tx_since < TxCap THEN tx_since + 1 ELSE tx_since
  /\ ever_tx' = TRUE
  /\ event' = EventAfterSend(event)
  /\ ev_fresh' = TRUE
  /\ pc' = "fsm"
  /\ UNCHANGED <<device_state, initialized, seconds_since_startup, motion_en, wake_en,
                 do_monitor, mm_ret, sleep_time, report_type, reboot_pending, pulses,
                 last_hook, first_sleep, last_sleep, settle_cut>>
  /\ rpt' = [type |-> report_type, batt |-> batt', photo |-> photo',
             temperature |-> temperature']
  /\ phase' = IF report_type = RT_MOTION THEN "sent" ELSE phase
  /\ UNCHANGED <<last_branch, last_ticks, settled, ticks_seen>>

(* ---- _fsm: which branch of the if/elif chain handles (state, event) ---- *)
FsmBranch_resend(st, ev) ==
  IF st = ST_INIT THEN "init_entry"
  ELSE IF st = ST_WAIT_NEW_MOTION THEN
         (IF ev = EV_EXPIRY THEN "wnm_expiry"
          ELSE IF ev = EV_MOTION THEN "wnm_motion"
          ELSE IF ev = EV_RPTSENT THEN "wnm_expiry"
          ELSE "fallthrough")
  ELSE IF st = ST_WAIT_DEADBAND THEN
         (IF ev = EV_EXPIRY THEN "wdb_expiry"
          ELSE IF ev = EV_MOTION THEN "wdb_motion"
          ELSE IF ev = EV_RPTSENT THEN "wdb_rptsent"
          ELSE "fallthrough")
  ELSE IF st = ST_WAIT_STILL THEN
         (IF ev = EV_EXPIRY THEN "ws_expiry"
          ELSE IF ev = EV_MOTION THEN "ws_motion"
          ELSE IF ev = EV_RPTSENT THEN "ws_rptsent"
          ELSE "fallthrough")
  ELSE "fallthrough"

FsmBranch_absorb(st, ev) ==
  IF st = ST_INIT THEN "init_entry"
  ELSE IF st = ST_WAIT_NEW_MOTION THEN
         (IF ev = EV_EXPIRY THEN "wnm_expiry"
          ELSE IF ev = EV_MOTION THEN "wnm_motion"
          ELSE IF ev = EV_RPTSENT THEN "wnm_rptsent"
          ELSE "fallthrough")
  ELSE IF st = ST_WAIT_DEADBAND THEN
         (IF ev = EV_EXPIRY THEN "wdb_expiry"
          ELSE IF ev = EV_MOTION THEN "wdb_expiry"
          ELSE IF ev = EV_RPTSENT THEN "wdb_rptsent"
          ELSE "fallthrough")
  ELSE IF st = ST_WAIT_STILL THEN
         (IF ev = EV_EXPIRY THEN "ws_expiry"
          ELSE IF ev = EV_MOTION THEN "ws_motion"
          ELSE IF ev = EV_RPTSENT THEN "ws_rptsent"
          ELSE "fallthrough")
  ELSE "fallthrough"

FsmBranch_gap(st, ev) ==
  IF st = ST_INIT THEN "init_entry"
  ELSE IF st = ST_WAIT_NEW_MOTION THEN
         (IF ev = EV_EXPIRY THEN "wnm_expiry"
          ELSE IF ev = EV_MOTION THEN "wnm_motion"
          ELSE IF ev = EV_RPTSENT THEN "wnm_rptsent"
          ELSE "fallthrough")
  ELSE IF st = ST_WAIT_DEADBAND THEN
         (IF ev = EV_EXPIRY THEN "wdb_expiry"
          ELSE IF ev = EV_MOTION THEN "wdb_motion"
          ELSE "fallthrough")
  ELSE IF st = ST_WAIT_STILL THEN
         (IF ev = EV_EXPIRY THEN "ws_expiry"
          ELSE IF ev = EV_MOTION THEN "ws_motion"
          ELSE IF ev = EV_RPTSENT THEN "ws_rptsent"
          ELSE "fallthrough")
  ELSE "fallthrough"

FsmBranch_nodeadband(st, ev) ==
  IF st = ST_INIT THEN "init_entry"
  ELSE IF st = ST_WAIT_NEW_MOTION THEN
         (IF ev = EV_EXPIRY THEN "wnm_expiry"
          ELSE IF ev = EV_MOTION THEN "wnm_motion"
          ELSE IF ev = EV_RPTSENT THEN "wnm_rptsent"
          ELSE "fallthrough")
  ELSE IF st = ST_WAIT_DEADBAND THEN
         (IF ev = EV_EXPIRY THEN "wdb_expiry"
          ELSE IF ev = EV_MOTION THEN "wdb_motion"
          ELSE IF ev = EV_RPTSENT THEN "wdb_expiry"
          ELSE "fallthrough")
  ELSE IF st = ST_WAIT_STILL THEN
         (IF ev = EV_EXPIRY THEN "ws_expiry"
          ELSE IF ev = EV_MOTION THEN "ws_motion"
          ELSE IF ev = EV_RPTSENT THEN "ws_rptsent"
          ELSE "fallthrough")
  ELSE "fallthrough"

FsmBranch(st, ev) ==
  IF st = ST_INIT THEN "init_entry"
  ELSE IF st = ST_WAIT_NEW_MOTION THEN
         (IF ev = EV_EXPIRY THEN "wnm_expiry"
          ELSE IF ev = EV_MOTION THEN "wnm_motion"
          ELSE IF ev = EV_RPTSENT THEN "wnm_rptsent"
          ELSE "fallthrough")
  ELSE IF st = ST_WAIT_DEADBAND THEN
         (IF ev = EV_EXPIRY THEN "wdb_expiry"
          ELSE IF ev = EV_MOTION THEN "wdb_motion"
          ELSE IF ev = EV_RPTSENT THEN "wdb_rptsent"
          ELSE "fallthrough")
  ELSE IF st = ST_WAIT_STILL THEN
         (IF ev = EV_EXPIRY THEN "ws_expiry"
          ELSE IF ev = EV_MOTION THEN "ws_motion"
          ELSE IF ev = EV_RPTSENT THEN "ws_rptsent"
          ELSE "fallthrough")
  ELSE "fallthrough"

(* the duration each sleeping branch passes to _sleep *)
SleepTime_swapped(branch) ==
  IF branch = "init_entry" THEN MOTION_STILLNESS
  ELSE IF branch = "wnm_rptsent" THEN STILL_REPORT_PERIOD
  ELSE IF branch = "wdb_expiry" THEN STILL_REPORT_PERIOD
  ELSE IF branch = "wdb_rptsent" THEN MOTION_DEADBAND
  ELSE None

SleepTime(branch) ==
  IF branch = "init_entry" THEN STILL_REPORT_PERIOD
  ELSE IF branch = "wnm_rptsent" THEN STILL_REPORT_PERIOD
  ELSE IF branch = "wdb_expiry" THEN MOTION_STILLNESS
  ELSE IF branch = "wdb_rptsent" THEN MOTION_DEADBAND
  ELSE None

(* branch bodies; each leaves at the first call it makes *)
fsm_call_sleep(branch) ==
  /\ sleep_time' = SleepTime(branch)
  /\ pc' = "sleep"
  /\ UNCHANGED <<prog, do_monitor, mm_ret, report_type, reboot_pending>>

fsm_call_send(st, rt) ==
  /\ device_state' = st
  /\ report_type' = rt
  /\ pc' = "send"
  /\ UNCHANGED <<current_rpc_buffer, batt, photo, temperature, initialized,
                 seconds_since_startup, led_pin, motion_en, wake_en, do_monitor,
                 mm_ret, sleep_time, reboot_pending>>

fsm_motion_nodisarm ==
  /\ device_state' = ST_WAIT_DEADBAND
  /\ report_type' = RT_MOTION
  /\ pc' = "send"
  /\ UNCHANGED <<current_rpc_buffer, batt, photo, temperature, initialized,
                 seconds_since_startup, led_pin, motion_en, wake_en, do_monitor,
                 mm_ret, sleep_time, reboot_pending>>

fsm_motion ==
  /\ device_state' = ST_WAIT_DEADBAND
  /\ do_monitor' = FALSE /\ mm_ret' = "send"
  /\ report_type' = RT_MOTION
  /\ pc' = "mm_pin"
  /\ UNCHANGED <<current_rpc_buffer, batt, photo, temperature, initialized,
                 seconds_since_startup, led_pin, motion_en, wake_en, sleep_time,
                 reboot_pending>>

fsm_init_entry ==
  /\ led_pin' = TRUE
  /\ device_state' = ST_WAIT_NEW_MOTION
  /\ do_monitor' = TRUE /\ mm_ret' = "sleep"
  /\ sleep_time' = SleepTime("init_entry")
  /\ pc' = "mm_pin"
  /\ UNCHANGED <<current_rpc_buffer, batt, photo, temperature, initialized,
                 seconds_since_startup, motion_en, wake_en, report_type,
                 reboot_pending>>

fsm_wdb_expiry ==
  /\ do_monitor' = TRUE /\ mm_ret' = "wdb_state"
  /\ pc' = "mm_pin"
  /\ UNCHANGED <<prog, sleep_time, report_type, reboot_pending>>

(* reboot() is a platform call: the script has no statement after it in the
   branch, so if the call returns the loop is back at its top with event and
   device_state as they were; the restart itself is the action restart, which
   can come at any later point. *)
fsm_reboot ==
  /\ reboot_pending' = TRUE
  /\ UNCHANGED <<prog, locals, pc>>

fsm_fallthrough ==
  UNCHANGED <<prog, locals, pc, reboot_pending>>

(* ---- _fsm: one pass of the while loop, up to the first call of the branch ---- *)
fsm ==
  /\ pc = "fsm"
  /\ IF event = None
       THEN /\ pc' = "idle"
            /\ UNCHANGED <<prog, locals, reboot_pending, ev_fresh, last_branch>>
       ELSE /\ ev_fresh' = FALSE
            /\ last_branch' = FsmBranch(device_state, event)
            /\ UNCHANGED event
            /\ LET b == FsmBranch(device_state, event) IN
               IF b = "init_entry" THEN fsm_init_entry
               ELSE IF b = "wnm_expiry" THEN fsm_call_send(device_state, RT_STILL)
               ELSE IF b \in {"wnm_motion", "ws_motion"} THEN fsm_motion
               ELSE IF b \in {"wnm_rptsent", "wdb_rptsent"} THEN fsm_call_sleep(b)
               ELSE IF b = "wdb_expiry" THEN fsm_wdb_expiry
               ELSE IF b = "ws_expiry" THEN fsm_call_send(ST_WAIT_NEW_MOTION, RT_STILL)
               ELSE IF b \in {"wdb_motion", "ws_rptsent"} THEN fsm_reboot
               ELSE fsm_fallthrough
  /\ UNCHANGED <<outstanding, pulses, last_hook, tx_since, ever_tx, first_sleep,
                 last_sleep, settle_cut>>
  /\ UNCHANGED <<last_ticks, settled, rpt, meas, ticks_seen, phase>>

(* ---- _fsm, WaitDeadband/Expiry: after _monitor_motion(True) returns ---- *)
fsm_wdb_state ==
  /\ pc = "wdb_state"
  /\ device_state' = ST_WAIT_STILL
  /\ sleep_time' = SleepTime("wdb_expiry")
  /\ pc' = "sleep"
  /\ UNCHANGED <<current_rpc_buffer, batt, photo, temperature, initialized,
                 seconds_since_startup, led_pin, motion_en, wake_en, event, do_monitor,
                 mm_ret, report_type, reboot_pending, outstanding, hist>>
  /\ UNCHANGED hist2

(* ---- _report_sent ---- *)
Matches_any(bufRef, pending) == TRUE

Matches(bufRef, pending) == bufRef = pending

ClearedBuffer_kept(pending) == pending

ClearedBuffer(pending) == None

report_sent(bufRef) ==
  /\ pc = "idle"
  /\ outstanding' = outstanding \ {bufRef}
  /\ IF initialized
       THEN /\ led_pin' = TRUE
            /\ IF Matches(bufRef, current_rpc_buffer)
                 THEN /\ current_rpc_buffer' = ClearedBuffer(current_rpc_buffer)
                      /\ event' = EV_RPTSENT
                      /\ ev_fresh' = TRUE
                      /\ tx_since' = 0
                      /\ last_hook' = "accepted"
                      /\ phase' = IF phase = "sent" THEN "acked" ELSE phase
                      /\ pc' = "fsm"
                 ELSE /\ last_hook' = "ignored"
                      /\ UNCHANGED <<current_rpc_buffer, event, ev_fresh, tx_since, pc,
                                     phase>>
       ELSE /\ last_hook' = "gated"
            /\ UNCHANGED <<led_pin, current_rpc_buffer, event, ev_fresh, tx_since, pc,
                           phase>>
  /\ UNCHANGED <<device_state, batt, photo, temperature, initialized,
                 seconds_since_startup, motion_en, wake_en, do_monitor, mm_ret,
                 sleep_time, report_type, reboot_pending, pulses, ever_tx, first_sleep,
                 last_sleep, settle_cut>>
  /\ UNCHANGED <<last_branch, last_ticks, settled, rpt, meas, ticks_seen>>

(* ---- the restart that reboot() brings about: the script starts over ---- *)
restart ==
  /\ reboot_pending
  /\ device_state' = ST_INIT
  /\ current_rpc_buffer' = None
  /\ batt' = 0 /\ photo' = 0 /\ temperature' = 0
  /\ initialized' = FALSE
  /\ seconds_since_startup' = 0
  /\ led_pin' = TRUE
  /\ motion_en' = FALSE /\ wake_en' = FALSE
  /\ pc' = "idle"
  /\ event' = None /\ do_monitor' = FALSE /\ mm_ret' = "idle"
  /\ sleep_time' = None /\ report_type' = RT_STILL
  /\ reboot_pending' = FALSE
  /\ outstanding' = {}
  /\ pulses' = 0 /\ last_hook' = "none" /\ tx_since' = 0 /\ ever_tx' = FALSE
  /\ first_sleep' = None /\ last_sleep' = None /\ settle_cut' = FALSE
  /\ ev_fresh' = TRUE
  /\ last_branch' = "none" /\ last_ticks' = None /\ settled' = FALSE
  /\ rpt' = NoReport /\ meas' = NoSnapshot /\ ticks_seen' = 0 /\ phase' = "none"

(* ---- completion notifications: any handle, stale and duplicate ones too ---- *)
notify == \E bufRef \in Handles : report_sent(bufRef)

(* ---- completion notifications of issued transmissions only ---- *)
notify_issued == \E bufRef \in outstanding : report_sent(bufRef)

sleep_any == sleep(FALSE)
settle_any == monitor_motion_settle(FALSE)
sleep_armed == sleep(TRUE)
settle_armed == monitor_motion_settle(TRUE)

Next ==
  \/ tick100ms
  \/ tick1s
  \/ notify
  \/ init_hw
  \/ init_kickoff
  \/ monitor_motion_pin
  \/ settle_any
  \/ monitor_motion_poke
  \/ fsm
  \/ fsm_wdb_state
  \/ sleep_any
  \/ send_report
  \/ restart

Spec == Init /\ [][Next]_vars

(* sleeps end early only while wake-on-motion is enabled; only issued
   transmissions are notified *)
NextWake ==
  \/ tick100ms
  \/ tick1s
  \/ notify_issued
  \/ init_hw
  \/ init_kickoff
  \/ monitor_motion_pin
  \/ settle_armed
  \/ monitor_motion_poke
  \/ fsm
  \/ fsm_wdb_state
  \/ sleep_armed
  \/ send_report

SpecWake == Init /\ [][NextWake]_vars

TypeOK ==
  /\ device_state \in States
  /\ current_rpc_buffer \in Handles \cup {None}
  /\ event \in Events \cup {None}
  /\ pc \in {"idle", "init", "init_led", "mm_pin", "mm_settle", "mm_poke", "fsm",
             "wdb_state", "sleep", "send"}
  /\ seconds_since_startup \in 0..MaxSeconds
  /\ outstanding \subseteq Handles

(* ---- _fsm entered with every (state, event) pair ---- *)
InitTable ==
  /\ device_state \in States
  /\ event \in Events
  /\ pc = "fsm"
  /\ current_rpc_buffer = None
  /\ batt = 0 /\ photo = 0 /\ temperature = 0
  /\ initialized = TRUE
  /\ seconds_since_startup = STARTUP_DELAY + 1
  /\ led_pin = TRUE
  /\ motion_en = (device_state # ST_WAIT_DEADBAND)
  /\ wake_en = (device_state # ST_WAIT_DEADBAND)
  /\ do_monitor = FALSE /\ mm_ret = "idle"
  /\ sleep_time = None /\ report_type = RT_STILL
  /\ reboot_pending = FALSE
  /\ outstanding = {}
  /\ pulses = 0 /\ last_hook = "none" /\ tx_since = 0 /\ ever_tx = FALSE
  /\ first_sleep = None /\ last_sleep = None /\ settle_cut = FALSE
  /\ ev_fresh = TRUE
  /\ last_branch = "none" /\ last_ticks = None /\ settled = FALSE
  /\ rpt = NoReport /\ meas = NoSnapshot /\ ticks_seen = 0 /\ phase = "none"

SpecTable == InitTable /\ [][Next]_vars

Waiting == device_state \in {ST_WAIT_NEW_MOTION, ST_WAIT_STILL}

(* C1 as stated: in every reachable state, the points between the statements of
   a transition included, motion detection is armed iff device_state is
   WaitNewMotion or WaitStill. *)
C1_ArmedIffWaitingEverywhere == Armed <=> Waiting

(* C1 amended: whenever the node is at rest (no handler is running, or the
   running handler is suspended in a sleep: the one of _sleep or the settle
   sleep of _monitor_motion), motion detection is armed iff device_state is
   WaitNewMotion or WaitStill. *)
C1_ArmedIffWaitingAtRest ==
  (pc \in {"idle", "sleep", "mm_settle"}) => (Armed <=> Waiting)

C1_Witness == pc = "idle" /\ device_state = ST_WAIT_DEADBAND /\ ~Armed /\ ever_tx

(* C2: at most one transmission is outstanding: _send_report is entered only
   when current_rpc_buffer holds no handle, and the radio never has more than
   one transmission to complete. *)
C2_OneOutstanding ==
  /\ (pc = "send") => (current_rpc_buffer = None /\ outstanding = {})
  /\ Cardinality(outstanding) <= 1

C2_Witness == pc = "send" /\ ever_tx /\ current_rpc_buffer = None

(* C3: every sleep, through _sleep or the settle sleep of _monitor_motion, is
   requested only when no transmission is pending. *)
C3_NoSleepWhilePending ==
  (pc \in {"sleep", "mm_settle"}) => (current_rpc_buffer = None /\ outstanding = {})

C3_Witness == pc = "sleep" /\ ever_tx /\ last_hook = "accepted"

(* C4: whenever _report_sent injects ReportSent into the FSM, exactly one
   transmit happened since the previous ReportSent (or boot), and the pending
   handle is already cleared when the FSM gets the event. *)
C4_ReportSentAfterOneTransmit ==
  [][(pc = "idle" /\ pc' = "fsm")
       => (event' = EV_RPTSENT /\ tx_since = 1 /\ current_rpc_buffer' = None)]_vars

C4_Witness == pc = "fsm" /\ event = EV_RPTSENT /\ last_hook = "accepted" /\ ever_tx

(* C5: a completion notification whose handle differs from the pending one
   changes neither device_state, current_rpc_buffer, the detector's arming,
   nor the sleeps and transmissions issued, and starts no FSM pass. *)
C5_UnmatchedIgnored ==
  [][\A h \in Handles :
       (report_sent(h) /\ h # current_rpc_buffer)
         => /\ UNCHANGED <<device_state, current_rpc_buffer, motion_en, wake_en,
                           event, tx_since, ever_tx, first_sleep, last_sleep>>
            /\ pc' = "idle"]_vars

C5_Witness == pc = "idle" /\ last_hook = "ignored" /\ current_rpc_buffer # None

(* C6: when sleeps end early only while wake-on-motion is enabled and only
   issued transmissions are notified, the FSM never handles Motion in
   WaitDeadband nor ReportSent in WaitStill, and reboot() is never called. *)
C6_NoFatalTransition ==
  /\ ~reboot_pending
  /\ ~(pc = "fsm" /\ device_state = ST_WAIT_DEADBAND /\ event = EV_MOTION)
  /\ ~(pc = "fsm" /\ device_state = ST_WAIT_STILL /\ event = EV_RPTSENT)

C6_Witness ==
  pc = "fsm" /\ device_state = ST_WAIT_DEADBAND /\ event = EV_EXPIRY /\ ~wake_en

RebootFrame ==
  /\ UNCHANGED <<device_state, current_rpc_buffer, motion_en, wake_en, ever_tx,
                 tx_since, first_sleep, last_sleep>>
  /\ pc' = "fsm"

(* C7: a Motion event handled in WaitDeadband calls reboot(); from then until
   the node restarts no report is transmitted, the detector is not re-armed,
   no sleep is requested and device_state stays WaitDeadband. *)
C7_MotionInDeadbandReboots ==
  [][/\ (pc = "fsm" /\ device_state = ST_WAIT_DEADBAND /\ event = EV_MOTION
           /\ ~reboot_pending) => (reboot_pending' /\ RebootFrame)
     /\ (reboot_pending /\ reboot_pending') => RebootFrame]_vars

C7_Witness ==
  reboot_pending /\ device_state = ST_WAIT_DEADBAND /\ event = EV_MOTION /\ ~Armed

(* C8: for every state and event the dispatch of _fsm takes a branch: the pass
   leaves for a table action, after which the pending event has been replaced
   when the loop is back at its top, or it calls reboot(); no pair falls
   through. *)
C8_TableTotal ==
  /\ []((pc = "fsm") => (ev_fresh \/ reboot_pending))
  /\ [][(pc = "fsm" /\ event # None) => (pc' # "fsm" \/ reboot_pending')]_vars

C8_Witness ==
  reboot_pending /\ pc = "fsm" /\ device_state = ST_WAIT_STILL /\ event = EV_RPTSENT

(* C9: on cold boot _fsm is entered in Init with the event Expiry, and before
   any report is transmitted device_state is WaitNewMotion, the detector is
   armed and the first duration passed to _sleep is STILL_REPORT_PERIOD. *)
C9_ColdBoot ==
  /\ (pc = "fsm" /\ device_state = ST_INIT)
       => (event = EV_EXPIRY /\ first_sleep = None /\ ~ever_tx)
  /\ (pc = "sleep" /\ first_sleep = None)
       => (device_state = ST_WAIT_NEW_MOTION /\ Armed /\ ~ever_tx
           /\ sleep_time = STILL_REPORT_PERIOD)
  /\ (first_sleep # None) => (first_sleep = STILL_REPORT_PERIOD)
  /\ ever_tx => (first_sleep # None)

C9_Witness ==
  /\ pc = "fsm" /\ first_sleep = STILL_REPORT_PERIOD /\ ~ever_tx
  /\ device_state = ST_WAIT_NEW_MOTION /\ Armed

(* C10: until the boot countdown completes no handler leaves the FSM gate:
   device_state is Init, no sleep was requested, no report transmitted, the
   detector is not armed and no completion notification was passed on. *)
C10_GatedBeforeCountdown ==
  (~initialized) =>
     /\ pc = "idle" /\ device_state = ST_INIT /\ event = None
     /\ first_sleep = None /\ ~ever_tx /\ ~Armed
     /\ current_rpc_buffer = None
     /\ last_hook \in {"none", "gated"}

C10_Witness ==
  ~initialized /\ last_hook = "gated" /\ pulses > 0 /\ seconds_since_startup > 0

FromSleep == pc = "fsm" /\ ev_fresh /\ event \in {EV_EXPIRY, EV_MOTION}

MotionBranches == {"wnm_motion", "ws_motion"}

(* C11: in WaitNewMotion a sleep that returns 0 is classified Expiry; the
   transition transmits exactly one Still report and requests no sleep; the
   next sleep is requested only by the ReportSent of that report, for
   STILL_REPORT_PERIOD, with device_state still WaitNewMotion. *)
C11_StillReportCycle ==
  /\ []((FromSleep /\ device_state = ST_WAIT_NEW_MOTION /\ last_ticks = 0)
          => event = EV_EXPIRY)
  /\ []((pc = "send" /\ last_branch = "wnm_expiry")
          => (report_type = RT_STILL /\ device_state = ST_WAIT_NEW_MOTION
              /\ tx_since = 0 /\ current_rpc_buffer = None))
  /\ []((pc = "idle" /\ last_branch = "wnm_expiry")
          => (tx_since = 1 /\ rpt.type = RT_STILL /\ current_rpc_buffer # None
              /\ device_state = ST_WAIT_NEW_MOTION))
  /\ [][(pc = "fsm" /\ event = EV_RPTSENT /\ last_branch = "wnm_expiry")
          => (pc' = "sleep" /\ sleep_time' = STILL_REPORT_PERIOD
              /\ device_state' = ST_WAIT_NEW_MOTION)]_vars
  /\ [][(last_branch = "wnm_expiry" /\ pc' \in {"sleep", "mm_settle"})
          => (event = EV_RPTSENT /\ current_rpc_buffer = None)]_vars

C11_Witness ==
  /\ pc = "sleep" /\ last_branch = "wnm_rptsent" /\ sleep_time = STILL_REPORT_PERIOD
  /\ rpt.type = RT_STILL /\ last_sleep = STILL_REPORT_PERIOD /\ last_ticks = 0

(* C12: in WaitNewMotion and in WaitStill a sleep that returns a nonzero
   remaining time is classified Motion; the detector is disarmed before the
   one Motion report is transmitted; the ReportSent of that report finds
   device_state WaitDeadband and requests a sleep of MOTION_DEADBAND. *)
C12_MotionReportCycle ==
  /\ []((FromSleep /\ Waiting /\ last_ticks > 0) => event = EV_MOTION)
  /\ []((pc = "send" /\ last_branch \in MotionBranches)
          => (~motion_en /\ ~wake_en /\ report_type = RT_MOTION
              /\ device_state = ST_WAIT_DEADBAND /\ tx_since = 0))
  /\ []((pc = "idle" /\ last_branch \in MotionBranches)
          => (tx_since = 1 /\ rpt.type = RT_MOTION /\ current_rpc_buffer # None
              /\ device_state = ST_WAIT_DEADBAND /\ ~Armed))
  /\ [][(pc = "fsm" /\ event = EV_RPTSENT /\ last_branch \in MotionBranches)
          => (pc' = "sleep" /\ sleep_time' = MOTION_DEADBAND
              /\ device_state' = ST_WAIT_DEADBAND)]_vars

C12_Witness ==
  /\ pc = "sleep" /\ last_branch = "wdb_rptsent" /\ sleep_time = MOTION_DEADBAND
  /\ rpt.type = RT_MOTION /\ last_sleep = STILL_REPORT_PERIOD /\ last_ticks > 0
  /\ ~Armed

(* C13: Expiry in WaitDeadband calls _monitor_motion(True); wake-on-motion is
   enabled after a settle sleep that ran its full time, then device_state is
   WaitStill and the sleep requested is MOTION_STILLNESS; the transition
   transmits no report. *)
C13_DeadbandExpiry ==
  /\ [][(pc = "fsm" /\ device_state = ST_WAIT_DEADBAND /\ event = EV_EXPIRY)
          => (pc' = "mm_pin" /\ do_monitor')]_vars
  /\ [][(last_branch = "wdb_expiry" /\ ~wake_en /\ wake_en')
          => (settled /\ ~settle_cut)]_vars
  /\ []((pc = "sleep" /\ last_branch = "wdb_expiry")
          => (Armed /\ device_state = ST_WAIT_STILL /\ sleep_time = MOTION_STILLNESS
              /\ tx_since = 0 /\ current_rpc_buffer = None))
  /\ []((last_branch = "wdb_expiry") => pc # "send")

C13_Witness ==
  /\ pc = "fsm" /\ last_branch = "wdb_expiry" /\ last_sleep = MOTION_STILLNESS
  /\ device_state = ST_WAIT_STILL /\ Armed /\ ev_fresh

(* ---- the steps of a running handler, which always proceed ---- *)
ProgramStep ==
  \/ init_hw \/ init_kickoff \/ monitor_motion_pin \/ settle_any
  \/ monitor_motion_poke \/ fsm \/ fsm_wdb_state \/ sleep_any \/ send_report

ProgramStepWake ==
  \/ init_hw \/ init_kickoff \/ monitor_motion_pin \/ settle_armed
  \/ monitor_motion_poke \/ fsm \/ fsm_wdb_state \/ sleep_armed \/ send_report

(* every sleep returns, every step of a handler is taken, and the restart
   that reboot() asks for comes *)
SpecFair == Init /\ [][Next]_vars /\ WF_vars(ProgramStep) /\ WF_vars(restart)

(* as SpecWake, and every issued transmission is notified *)
SpecWakeFair ==
  Init /\ [][NextWake]_vars /\ WF_vars(ProgramStepWake) /\ WF_vars(notify_issued)

(* C14: no wake is missed: an early end of a sleep of _sleep is classified
   Motion, and no settle sleep made while wake-on-motion is enabled ends early
   with its result dropped. *)
C14_NoWakeMissed ==
  /\ (FromSleep /\ last_ticks > 0) => event = EV_MOTION
  /\ ~(pc = "mm_poke" /\ do_monitor /\ wake_en /\ settle_cut)

(* C15: every transmitted report carries the three values its snapshot
   measured: the battery voltage and the light and temperature averages. *)
C15_ReportCarriesSnapshot ==
  ever_tx => /\ rpt.batt = meas.batt
             /\ rpt.photo = meas.photo
             /\ rpt.temperature = meas.temperature

(* C16: every invocation of _fsm terminates: a pending event leads to the loop
   test finding no event pending, and a handler that entered the loop is over
   only when that test has been passed, the reboot branches included. *)
C16_FsmTerminates ==
  /\ (pc = "fsm" /\ event # None) ~> (pc = "fsm" /\ event = None)
  /\ [][(pc # "idle" /\ pc' = "idle") => (pc = "fsm" /\ event = None)]_vars

(* C17: from a Motion report until its ReportSent has been handled and a
   sleep of MOTION_DEADBAND has expired, the detector stays disarmed; the
   wake bit is set, and the next Motion report sent, only after that. *)
C17_DeadbandBeforeRearm ==
  /\ []((phase \in {"sent", "acked"}) => (~wake_en /\ ~motion_en))
  /\ [][(~wake_en /\ wake_en') => (phase \in {"none", "expired"})]_vars
  /\ []((pc = "send" /\ report_type = RT_MOTION) => phase = "none")

C17_Witness ==
  /\ pc = "sleep" /\ last_branch = "wdb_expiry" /\ phase = "none"
  /\ rpt.type = RT_MOTION /\ Armed /\ last_sleep = MOTION_DEADBAND

(* C18: wherever _monitor_motion arms the detector, the wake bit is written
   after a settle sleep that ran its full PIR_SETTLE_TIME. *)
C18_FullSettleBeforeArm ==
  (pc = "mm_poke" /\ do_monitor) => (settled /\ ~settle_cut)

(* C19: _tick1s calls _init on the STARTUP_DELAY-th one-second tick, with
   seconds_since_startup equal to STARTUP_DELAY. *)
C19_InitAtStartupDelay ==
  (pc = "init") => (ticks_seen = STARTUP_DELAY /\ seconds_since_startup = STARTUP_DELAY)

(* C20: when sleeps return and every issued transmission is notified, each
   report is followed by a request of a sleep and each Motion report by
   WaitStill with the detector armed; until the matching notification comes
   the node stays as it is, with no sleep and no report. *)
C20_Progress ==
  /\ (pc = "idle" /\ current_rpc_buffer # None) ~> (pc = "sleep")
  /\ (pc = "idle" /\ current_rpc_buffer # None /\ rpt.type = RT_MOTION)
       ~> (device_state = ST_WAIT_STILL /\ Armed)
  /\ [][(pc = "idle" /\ pc' = "idle")
          => UNCHANGED <<device_state, current_rpc_buffer, motion_en, wake_en,
                         tx_since, ever_tx, first_sleep, last_sleep, rpt>>]_vars
  /\ [][(pc = "idle" /\ initialized /\ pc' # "idle")
          => (current_rpc_buffer # None /\ current_rpc_buffer' = None
              /\ event' = EV_RPTSENT)]_vars

C20_Witness ==
  /\ pc = "sleep" /\ device_state = ST_WAIT_STILL /\ Armed
  /\ rpt.type = RT_MOTION /\ last_hook = "accepted"

====
